---- MODULE Spec2Model ----
(***************************************************************************)
(* Model of graph/src/util/futures.rs: the staged retry builder            *)
(* (retry -> when_err/when -> log_after/no_logging -> limit/no_limit ->    *)
(* timeout/no_timeout -> run) and the retry loop run_retry, which drives   *)
(* tokio_retry::Retry over the delay iterator built by retry_strategy.     *)
(*                                                                         *)
(* One behaviour of Spec is one use of the builder followed by one run.    *)
(* The operation factory is an input: each attempt's outcome is chosen     *)
(* freely when the attempt completes.                                      *)
(*                                                                         *)
(* Also modelled: graph/src/util/stats.rs (MovingStats, specification      *)
(* StatsSpec; Bin::average_gt on arbitrary bins, specification GtSpec) and *)
(* the delays produced by retry_strategy (specification BackoffSpec).      *)
(* Each specification leaves the other components' variables untouched.    *)
(***************************************************************************)
EXTENDS Integers, Sequences, FiniteSets

VARIABLES
    pc,             \* stage of the builder, then state of the Retry future
    predicate,      \* RetryConfigWithPredicate.predicate
    log_after,      \* RetryConfigWithPredicate.log_after
    log_configured, \* log_after(..) or no_logging() has been called
    limit,          \* RetryConfigWithPredicate.limit : RetryConfigProperty<usize>
    timeout,        \* RetryConfigWithTimeout.timeout in seconds; None without one
    strategy,       \* the iterator of delays handed to Retry::spawn
    attempt_count,  \* run_retry's attempt_count = number of factory invocations
    hist,           \* results of the completed attempts, in order
    delays,         \* number of backoff delays started (Delay::new)
    log,            \* debug! events emitted by run_retry
    consulted,      \* results the predicate was applied to, in order
    result,         \* what the future returned by run resolved to
    panic,          \* why the thread panicked, "" if it did not
    \* MovingStats
    stats_pc,       \* "unbuilt", "ready", or "panicked" (add_at's unwrap failed)
    window_size,    \* MovingStats.window_size
    bin_size,       \* MovingStats.bin_size
    bins,           \* MovingStats.bins, front (oldest) first
    total,          \* MovingStats.total
    times,          \* the timestamps add_at was called with, in order
    gt_query,       \* the last average_gt call: its threshold and answer
    \* the backoff iterator inside retry_strategy
    bo_current,     \* ExponentialBackoff.current, in milliseconds
    bo_index,       \* number of delays taken from the strategy so far
    bo_raw,         \* the last delay before jitter, in milliseconds
    bo_delay        \* the last delay after jitter: [secs, nanos]

retryVars == <<pc, predicate, log_after, log_configured, limit, timeout,
               strategy, attempt_count, hist, delays, log, consulted, result,
               panic>>
statsVars == <<stats_pc, window_size, bin_size, bins, total, times, gt_query>>
backoffVars == <<bo_current, bo_index, bo_raw, bo_delay>>
otherVars == <<statsVars, backoffVars>>

vars == <<retryVars, statsVars, backoffVars>>

(***************************************************************************)
(* Bounds of the model.                                                    *)
(***************************************************************************)
\* Largest number of attempts one run is followed for.
MaxAttempts == 4
\* Largest n passed to limit(n).
MaxLimit == 3
\* Largest n passed to log_after(n).
MaxLogAfter == 2

\* u64::max_value() and usize::MAX. TLC's integers are 32 bits wide, so the
\* largest representable integer stands for both; attempt counts stay far
\* below it, and it is only ever compared with or decremented by them.
U64_MAX == 2147483647
USIZE_MAX == 2147483647

(***************************************************************************)
(* Results of attempts.  The item or error an operation produces carries a *)
(* payload val (what a predicate may inspect) and the number of the        *)
(* factory call that produced it (as the tests' operations return their    *)
(* call counter).  With a deadline the result is Result<I,DeadlineError<E>>*)
(* whose error is inner ("Err"), elapsed ("Elapsed") or timer ("Timer").   *)
(***************************************************************************)
Payloads == {0, 1}

Ok(v, k) == [tag |-> "Ok", val |-> v, call |-> k]
Err(v, k) == [tag |-> "Err", val |-> v, call |-> k]
Elapsed(k) == [tag |-> "Elapsed", val |-> 0, call |-> k]
TimerErr(k) == [tag |-> "Timer", val |-> 0, call |-> k]
NoResult == [tag |-> "None", val |-> 0, call |-> 0]

\* What the k-th pending operation can resolve to: with no deadline only the
\* operation's own Ok/Err; with a deadline also elapsed and a timer error.
Outcomes(has_timeout, k) ==
    {Ok(v, k) : v \in Payloads} \cup {Err(v, k) : v \in Payloads}
      \cup (IF has_timeout THEN {Elapsed(k), TimerErr(k)} ELSE {})

(***************************************************************************)
(* Predicates.  when_err installs is_err; when(p) installs any caller      *)
(* predicate over the attempt's Result.                                    *)
(***************************************************************************)
CustomPredicates == {"val_lt_1", "always", "never"}

\* Faulty variant: when_err retrying whatever the result is.
when_err_predicate_Always(r) == TRUE

when_err_predicate(r) == r.tag = "Err"

Predicate(p, r) ==
    CASE p = "when_err" -> when_err_predicate(r)
      [] p = "val_lt_1" -> r.val < 1      \* on Ok and on Err alike
      [] p = "always"   -> TRUE
      [] p = "never"    -> FALSE

(***************************************************************************)
(* RetryConfigProperty<V>                                                  *)
(***************************************************************************)
Unknown == [tag |-> "Unknown", v |-> 0]
Clear == [tag |-> "Clear", v |-> 0]
Set(v) == [tag |-> "Set", v |-> v]

\* Faulty variant: set and clear without the check for Unknown.
PropertyConfigurable_Always(self) == TRUE

\* set and clear panic unless the property is Unknown.
PropertyConfigurable(self) == self = Unknown

None == [some |-> FALSE, v |-> 0]
Some(v) == [some |-> TRUE, v |-> v]

\* unwrap: Set(v) => Some(v), Clear => None; Unknown panics (UnwrapPanics).
UnwrapPanics(self) == self.tag = "Unknown"
Unwrap(self) == IF self.tag = "Set" THEN Some(self.v) ELSE None

(***************************************************************************)
(* retry_strategy: the jittered exponential backoff, cut to limit - 1      *)
(* items when a limit is set.  The number of items left is kept here, the  *)
(* delays themselves further down (TakeDelay).                             *)
(* limit - 1 is a usize subtraction: for limit = 0 it panics in a build    *)
(* with overflow checks and wraps to usize::MAX in one without.            *)
(***************************************************************************)
Unbounded == [bounded |-> FALSE, left |-> 0]
Take(n) == [bounded |-> TRUE, left |-> n]

StrategyOverflows(limit_opt) == limit_opt.some /\ limit_opt.v = 0

\* Faulty variant: the limit taken as the number of delays (no "- 1").
retry_strategy_TakeLimit(limit_opt) ==
    IF limit_opt.some THEN Take(limit_opt.v) ELSE Unbounded

\* Faulty variant: no limit built as an empty strategy.
retry_strategy_NoneIsEmpty(limit_opt) ==
    IF limit_opt.some
      THEN IF limit_opt.v = 0 THEN Take(USIZE_MAX) ELSE Take(limit_opt.v - 1)
      ELSE Take(0)

retry_strategy(limit_opt) ==
    IF limit_opt.some
      THEN IF limit_opt.v = 0 THEN Take(USIZE_MAX) ELSE Take(limit_opt.v - 1)
      ELSE Unbounded

\* Faulty variants: Take yielding one item too many; Take never counting down.
StrategyHasNext_OffByOne(s) == ~s.bounded \/ s.left >= 0
StrategyRest_NoDec(s) == s

\* Iterator::next on the strategy.
StrategyHasNext(s) == ~s.bounded \/ s.left > 0
StrategyRest(s) == IF s.bounded THEN Take(s.left - 1) ELSE s

(***************************************************************************)
(* The closure run_retry hands to Retry::spawn, after the attempt resolved *)
(***************************************************************************)
is_elapsed(r) == r.tag = "Elapsed"

\* Faulty variant: a timer error not recognised as one.
is_timer_err_Never(r) == FALSE

is_timer_err(r) == r.tag = "Timer"

\* Faulty variant: the predicate deciding about elapsed attempts too.
ConsultsPredicate_Always(r) == ~is_timer_err(r)

\* The closure applies the predicate only in its last branch: to a result
\* that is neither elapsed nor a timer error.
ConsultsPredicate(r) == ~is_elapsed(r) /\ ~is_timer_err(r)

\* Faulty variants: every error retried; the predicate's answer inverted;
\* an Ok result never retried.
ForcesRetry_ErrAlways(p, r) ==
    IF ConsultsPredicate(r) THEN r.tag = "Err" \/ Predicate(p, r) ELSE TRUE
ForcesRetry_Negated(p, r) ==
    IF ConsultsPredicate(r) THEN ~Predicate(p, r) ELSE TRUE
ForcesRetry_OkNeverRetried(p, r) ==
    IF ConsultsPredicate(r) THEN r.tag /= "Ok" /\ Predicate(p, r) ELSE TRUE

\* TRUE when the closure wraps the result in Err (forcing a retry), FALSE
\* when it wraps it in Ok.  Not used for timer errors, which panic.
ForcesRetry(p, r) ==
    IF ConsultsPredicate(r) THEN Predicate(p, r) ELSE TRUE

\* The debug! event of the closure, if any.
ShouldLog(count, threshold) == count >= threshold
LogEvent(r, count) ==
    [kind |-> IF is_elapsed(r) THEN "timed out" ELSE "failed",
     attempt |-> count + 1]

(***************************************************************************)
(* Init: the state after retry(operation_name, logger).                    *)
(***************************************************************************)
RetryInit ==
    /\ pc = "RetryConfig"
    /\ predicate = "unset"
    /\ log_after = 1
    /\ log_configured = FALSE
    /\ limit = Unknown
    /\ timeout = None
    /\ strategy = Unbounded
    /\ attempt_count = 0
    /\ hist = <<>>
    /\ delays = 0
    /\ log = <<>>
    /\ consulted = <<>>
    /\ result = NoResult
    /\ panic = ""

\* No MovingStats constructed, no average_gt asked.
NoQuery == [asked |-> FALSE, threshold |-> 0, answer |-> FALSE]
StatsIdle ==
    /\ stats_pc = "unbuilt"
    /\ window_size = 0
    /\ bin_size = 0
    /\ bins = <<>>
    /\ total = [start |-> 0, duration |-> 0, count |-> 0]
    /\ times = <<>>
    /\ gt_query = NoQuery

\* No delay taken from a strategy yet.
NoDelay == [secs |-> 0, nanos |-> 0]
BackoffIdle ==
    /\ bo_current = 2      \* ExponentialBackoff::from_millis(2)
    /\ bo_index = 0
    /\ bo_raw = 0
    /\ bo_delay = NoDelay

Init == RetryInit /\ StatsIdle /\ BackoffIdle

runVars == <<strategy, attempt_count, hist, delays, log, consulted, result>>

(***************************************************************************)
(* Builder                                                                 *)
(***************************************************************************)
\* RetryConfig::when(predicate)
When(p) ==
    /\ UNCHANGED otherVars
    /\ pc = "RetryConfig"
    /\ pc' = "WithPredicate"
    /\ predicate' = p
    /\ log_after' = 1
    /\ limit' = Unknown
    /\ UNCHANGED <<log_configured, timeout, runVars, panic>>

\* RetryConfig::when_err
WhenErr == When("when_err")

\* RetryConfigWithPredicate::log_after(min_attempts)
LogAfter(min_attempts) ==
    /\ UNCHANGED otherVars
    /\ pc = "WithPredicate"
    /\ log_after' = min_attempts
    /\ log_configured' = TRUE
    /\ UNCHANGED <<pc, predicate, limit, timeout, runVars, panic>>

\* RetryConfigWithPredicate::no_logging
NoLogging ==
    /\ UNCHANGED otherVars
    /\ pc = "WithPredicate"
    /\ log_after' = U64_MAX
    /\ log_configured' = TRUE
    /\ UNCHANGED <<pc, predicate, limit, timeout, runVars, panic>>

\* RetryConfigProperty::set, as called by RetryConfigWithPredicate::limit
Limit(n) ==
    /\ UNCHANGED otherVars
    /\ pc = "WithPredicate"
    /\ IF PropertyConfigurable(limit)
         THEN /\ limit' = Set(n)
              /\ UNCHANGED <<pc, panic>>
         ELSE /\ pc' = "Panicked"
              /\ panic' = "Retry config properties must be configured only once"
              /\ UNCHANGED limit
    /\ UNCHANGED <<predicate, log_after, log_configured, timeout, runVars>>

\* RetryConfigProperty::clear, as called by RetryConfigWithPredicate::no_limit
NoLimit ==
    /\ UNCHANGED otherVars
    /\ pc = "WithPredicate"
    /\ IF PropertyConfigurable(limit)
         THEN /\ limit' = Clear
              /\ UNCHANGED <<pc, panic>>
         ELSE /\ pc' = "Panicked"
              /\ panic' = "Retry config properties must be configured only once"
              /\ UNCHANGED limit
    /\ UNCHANGED <<predicate, log_after, log_configured, timeout, runVars>>

\* RetryConfigWithPredicate::timeout (timeout_secs and timeout_millis call it)
Timeout(secs) ==
    /\ UNCHANGED otherVars
    /\ pc = "WithPredicate"
    /\ pc' = "WithTimeout"
    /\ timeout' = Some(secs)
    /\ UNCHANGED <<predicate, log_after, log_configured, limit, runVars, panic>>

\* RetryConfigWithPredicate::no_timeout
NoTimeout ==
    /\ UNCHANGED otherVars
    /\ pc = "WithPredicate"
    /\ pc' = "NoTimeout"
    /\ timeout' = None
    /\ UNCHANGED <<predicate, log_after, log_configured, limit, runVars, panic>>

(***************************************************************************)
(* The delays of retry_strategy, which take(limit - 1) cuts short:         *)
(* ExponentialBackoff::from_millis(2).max_delay(30 s).map(jitter).         *)
(* ExponentialBackoff yields current (milliseconds) and multiplies current *)
(* by the base, unless the delay exceeds max_delay, in which case it       *)
(* yields max_delay and leaves current alone.  jitter scales the seconds   *)
(* and the sub-second nanoseconds by a random factor in [0, 1), rounding   *)
(* each up.                                                                *)
(***************************************************************************)
\* Number of delays followed when the delays themselves are examined.
MaxBackoff == 18
\* The random factor of jitter is num / JitterDen for num in 0..JitterDen-1.
JitterDen == 8
\* The factors followed where only the retry loop is examined: both extremes.
JitterSamples == {0, JitterDen - 1}

\* ExponentialBackoff::from_millis(2): base and first delay, in milliseconds.
backoff_base_ms == 2
max_delay_ms == 30000

\* Faulty variant: no maximum applied.
apply_max_delay_None(duration_ms) == duration_ms

\* ExponentialBackoff::next with max_delay set: the delay it yields.
apply_max_delay(duration_ms) ==
    IF duration_ms > max_delay_ms THEN max_delay_ms ELSE duration_ms

\* ExponentialBackoff::next: the value of current afterwards.
backoff_advance(current) ==
    IF current > max_delay_ms THEN current ELSE current * backoff_base_ms

\* ceil(x * num / den), computed without forming x * num.
CeilScale(x, num, den) ==
    (x \div den) * num + (((x % den) * num + den - 1) \div den)

\* Duration::from_millis
from_millis(ms) == [secs |-> ms \div 1000, nanos |-> (ms % 1000) * 1000000]

\* tokio_retry::strategy::jitter with random factor num / JitterDen
jitter(duration, num) ==
    [secs  |-> CeilScale(duration.secs, num, JitterDen),
     nanos |-> CeilScale(duration.nanos, num, JitterDen)]

\* One next() of the strategy: Take counts the item, ExponentialBackoff
\* yields the delay and advances, and jitter scales it by num / JitterDen.
TakeDelay(num) ==
    /\ strategy' = StrategyRest(strategy)
    /\ delays' = delays + 1
    /\ bo_index' = bo_index + 1
    /\ bo_raw' = apply_max_delay(bo_current)
    /\ bo_current' = backoff_advance(bo_current)
    /\ bo_delay' = jitter(from_millis(apply_max_delay(bo_current)), num)

(***************************************************************************)
(* The deadline of an attempt is Instant::now() + timeout.  An Instant     *)
(* counts seconds in an i64, and "+" panics when the sum does not fit.     *)
(* TLC's integers are 32 bits wide, so i64::MAX is modelled at 30 bits,    *)
(* below the stand-in for u64::MAX.                                        *)
(***************************************************************************)
I64_MAX == 1073741823
\* Largest reading of the clock, in seconds, when an attempt starts.
MaxClock == 2
ClockSecs == 1..MaxClock
\* The timeouts passed to timeout_secs.
TimeoutSecs == {1, I64_MAX - 1, I64_MAX, U64_MAX}

\* Whether a timeout is configured.
has_timeout == timeout.some

\* Faulty variant: an addition that saturates instead of failing.
Instant_checked_add_Saturating(now, secs) ==
    IF secs > I64_MAX - now THEN Some(I64_MAX) ELSE Some(now + secs)

\* Instant::checked_add(Duration), behind "Instant::now() + timeout"
Instant_checked_add(now, secs) ==
    IF secs > I64_MAX - now THEN None ELSE Some(now + secs)

\* The closure Retry invokes for an attempt: count it, call the factory and,
\* with a timeout, compute the deadline at the clock's reading now.
StartAttempt(now) ==
    /\ attempt_count' = attempt_count + 1
    /\ IF has_timeout /\ ~Instant_checked_add(now, timeout.v).some
         THEN /\ pc' = "Panicked"
              /\ panic' = "overflow when adding duration to instant"
         ELSE /\ pc' = "Running"
              /\ UNCHANGED panic

(***************************************************************************)
(* run: unwrap the limit, build the strategy, and Retry::spawn, which      *)
(* invokes the closure (and so the factory) at once for the first attempt. *)
(***************************************************************************)
Run(now) ==
    /\ UNCHANGED otherVars
    /\ pc \in {"WithTimeout", "NoTimeout"}
    /\ \/ /\ UnwrapPanics(limit)
          /\ pc' = "Panicked"
          /\ panic' = "Retry helper must have limit parameter configured"
          /\ UNCHANGED runVars
       \/ /\ ~UnwrapPanics(limit)
          /\ StrategyOverflows(Unwrap(limit))
          /\ pc' = "Panicked"
          /\ panic' = "attempt to subtract with overflow"
          /\ UNCHANGED runVars
       \/ /\ ~UnwrapPanics(limit)
          /\ strategy' = retry_strategy(Unwrap(limit))
          /\ StartAttempt(now)
          /\ UNCHANGED <<hist, delays, log, consulted, result>>
    /\ UNCHANGED <<predicate, log_after, log_configured, limit, timeout>>

\* The results that come from the attempt's deadline, not from the operation.
FromDeadline(r) == r.tag \in {"Elapsed", "Timer"}

\* The operation of the pending attempt is one that never completes: only a
\* deadline, if there is one, can still resolve the attempt.
Hang ==
    /\ UNCHANGED otherVars
    /\ pc = "Running"
    /\ pc' = "Hanging"
    /\ UNCHANGED <<predicate, log_after, log_configured, limit, timeout,
                   runVars, panic>>

(***************************************************************************)
(* The pending attempt resolves to r: the closure classifies it and Retry  *)
(* either finishes, or takes the next delay from the strategy and sleeps.  *)
(***************************************************************************)
Complete(r, num) ==
    /\ UNCHANGED statsVars
    /\ pc = "Running" \/ (pc = "Hanging" /\ FromDeadline(r))
    /\ hist' = Append(hist, r)
    /\ consulted' = IF ConsultsPredicate(r) THEN Append(consulted, r)
                                             ELSE consulted
    /\ IF is_timer_err(r)
         THEN /\ pc' = "Panicked"
              /\ panic' = "tokio timer error"
              /\ UNCHANGED <<strategy, delays, log, result, backoffVars>>
         ELSE /\ UNCHANGED panic
              /\ IF ForcesRetry(predicate, r)
                   THEN /\ log' = IF ShouldLog(attempt_count, log_after)
                                    THEN Append(log, LogEvent(r, attempt_count))
                                    ELSE log
                        /\ IF StrategyHasNext(strategy)
                             THEN /\ TakeDelay(num)
                                  /\ pc' = "Sleeping"
                                  /\ UNCHANGED result
                             ELSE /\ result' = r
                                  /\ pc' = "Done"
                                  /\ UNCHANGED <<strategy, delays, backoffVars>>
                   ELSE /\ result' = r
                        /\ pc' = "Done"
                        /\ UNCHANGED <<strategy, delays, log, backoffVars>>
    /\ UNCHANGED <<predicate, log_after, log_configured, limit, timeout,
                   attempt_count>>

\* The backoff delay is over: Retry invokes the closure for the next attempt.
NextAttempt(now) ==
    /\ UNCHANGED otherVars
    /\ pc = "Sleeping"
    /\ StartAttempt(now)
    /\ UNCHANGED <<predicate, log_after, log_configured, limit, timeout,
                   strategy, hist, delays, log, consulted, result>>

\* The same, for the attempts followed.
Wake(now) == attempt_count < MaxAttempts /\ NextAttempt(now)

\* The backoff delay's timer fails: RetryError::TimerError, which panics.
DelayTimerError ==
    /\ UNCHANGED otherVars
    /\ pc = "Sleeping"
    /\ pc' = "Panicked"
    /\ panic' = "tokio timer error"
    /\ UNCHANGED <<predicate, log_after, log_configured, limit, timeout,
                   runVars>>

Next ==
    \/ WhenErr
    \/ \E p \in CustomPredicates : When(p)
    \/ \E n \in 0..MaxLogAfter : LogAfter(n)
    \/ NoLogging
    \/ \E n \in 0..MaxLimit : Limit(n)
    \/ NoLimit
    \/ \E secs \in TimeoutSecs : Timeout(secs)
    \/ NoTimeout
    \/ \E now \in ClockSecs : Run(now)
    \/ \E r \in Outcomes(has_timeout, attempt_count), num \in JitterSamples :
         Complete(r, num)
    \/ Hang
    \/ \E now \in ClockSecs : Wake(now)
    \/ DelayTimerError

Spec == Init /\ [][Next]_vars

\* The timer driving a backoff delay fires (or fails): a sleeping Retry is
\* polled again, so the next attempt is not postponed forever.
\* The delay is over at some reading of the clock.
DelayOver == \E now \in ClockSecs : Wake(now)

FairSpec == Spec /\ WF_vars(DelayOver)

\* The fate of a pending attempt is decided: its operation completes or is
\* one that never does, and a deadline, where there is one, fires.
Resolve ==
    \/ Hang
    \/ \E r \in Outcomes(has_timeout, attempt_count), num \in JitterSamples :
         Complete(r, num)

\* Timers fire and operations that can complete do.
TimerSpec == Spec /\ WF_vars(DelayOver) /\ WF_vars(Resolve)

(***************************************************************************)
(* The delays themselves: a run of                                         *)
(* retry(..).when_err().no_limit().no_timeout().run(f) whose attempts all  *)
(* fail, followed for MaxBackoff delays and every jitter factor.           *)
(***************************************************************************)
BackoffInit ==
    /\ pc = "Running"
    /\ predicate = "when_err"
    /\ log_after = 1
    /\ log_configured = FALSE
    /\ limit = Clear
    /\ timeout = None
    /\ strategy = retry_strategy(None)
    /\ attempt_count = 1
    /\ hist = <<>>
    /\ delays = 0
    /\ log = <<>>
    /\ consulted = <<>>
    /\ result = NoResult
    /\ panic = ""
    /\ StatsIdle
    /\ BackoffIdle

\* The attempt fails and the strategy yields the next delay.
FailAttempt(num) ==
    /\ bo_index < MaxBackoff
    /\ Complete(Err(0, attempt_count), num)

BackoffNext ==
    \/ \E num \in 0..(JitterDen - 1) : FailAttempt(num)
    \/ \E now \in ClockSecs : NextAttempt(now)

BackoffSpec == BackoffInit /\ [][BackoffNext]_vars

(***************************************************************************)
(* graph/src/util/stats.rs.  Instants and Durations are integers in one    *)
(* unit (the clock's resolution).  count is a u32 and durations are        *)
(* Durations: their "+=" would overflow only far beyond the bounds here.   *)
(***************************************************************************)
\* Largest timestamp passed to add_at.
MaxTime == 4
\* Largest number of add / add_at calls followed.
MaxAdds == 4
\* Largest window_size and bin_size passed to MovingStats::new.
MaxWindow == 3
MaxBin == 2
\* The measured durations passed to add / add_at.
Durations == {1, 2}

\* Bin::new
Bin_new(start) == [start |-> start, duration |-> 0, count |-> 0]

\* Bin::add
Bin_add(self, duration) ==
    [self EXCEPT !.count = @ + 1, !.duration = @ + duration]

\* Faulty variant: remove forgetting the duration.
Bin_remove_CountOnly(self, other) ==
    [self EXCEPT !.count = @ - other.count]

\* Bin::remove
Bin_remove(self, other) ==
    [self EXCEPT !.count = @ - other.count, !.duration = @ - other.duration]

\* Instant::saturating_duration_since
saturating_duration_since(later, earlier) ==
    IF later >= earlier THEN later - earlier ELSE 0

\* Faulty variant: a new bin for every measurement.
need_new_bin_Always(bs, now, bsize) == TRUE

\* add_at: whether the newest bin is too old to take the measurement.
need_new_bin(bs, now, bsize) ==
    IF bs = <<>>
      THEN TRUE
      ELSE saturating_duration_since(now, bs[Len(bs)].start) >= bsize

\* Faulty variants: a bin exactly window_size old kept; nothing ever expired.
Expired_Strict(existing, now, wsize) ==
    saturating_duration_since(now, existing.start) > wsize
Expired_Never(existing, now, wsize) == FALSE

\* expire_bins: the loop's condition on the front bin.
Expired(existing, now, wsize) ==
    saturating_duration_since(now, existing.start) >= wsize

\* expire_bins: pop expired bins off the front, removing each from the total.
RECURSIVE expire_bins(_, _, _, _)
expire_bins(bs, tot, now, wsize) ==
    IF bs /= <<>> /\ Expired(Head(bs), now, wsize)
      THEN expire_bins(Tail(bs), Bin_remove(tot, Head(bs)), now, wsize)
      ELSE [bins |-> bs, total |-> tot]

\* Faulty variant: no average reported as a zero average.
average_ZeroWhenEmpty(tot) ==
    IF tot.count = 0 THEN Some(0) ELSE Some(tot.duration \div tot.count)

\* MovingStats::average: Duration::checked_div(total.duration, total.count)
average(tot) ==
    IF tot.count = 0 THEN None ELSE Some(tot.duration \div tot.count)

\* The largest count (u32) and the largest Duration.  TLC's integers are 32
\* bits wide, so both are modelled at a reduced width (15 and 16 bits) that
\* keeps every product threshold * count representable.
U32_MAX == 32767
DURATION_MAX == 65535

\* Duration::checked_mul(u32)
checked_mul(duration, n) ==
    IF duration * n > DURATION_MAX THEN None ELSE Some(duration * n)

\* Faulty variant: an overflowing product taken as "above the threshold".
Bin_average_gt_OverflowTrue(self, duration) ==
    LET rhs == checked_mul(duration, self.count)
    IN  IF rhs.some THEN self.duration > rhs.v ELSE TRUE

\* Bin::average_gt
Bin_average_gt(self, duration) ==
    LET rhs == checked_mul(duration, self.count)
    IN  IF rhs.some THEN self.duration > rhs.v ELSE FALSE

\* MovingStats::new(window_size, bin_size)
StatsInit ==
    /\ stats_pc = "ready"
    /\ window_size \in 0..MaxWindow
    /\ bin_size \in 0..MaxBin
    /\ bins = <<>>
    /\ total = Bin_new(0)
    /\ times = <<>>
    /\ gt_query = NoQuery

\* MovingStats::add_at(now, duration)
AddAt(now, duration) ==
    /\ stats_pc = "ready"
    /\ Len(times) < MaxAdds
    /\ times' = Append(times, now)
    /\ LET pushed == IF need_new_bin(bins, now, bin_size)
                       THEN Append(bins, Bin_new(now))
                       ELSE bins
           kept == expire_bins(pushed, total, now, window_size)
       IN  IF kept.bins = <<>>
             THEN \* self.bins.back_mut().unwrap() panics
                  /\ stats_pc' = "panicked"
                  /\ bins' = kept.bins
                  /\ total' = kept.total
             ELSE /\ bins' = [kept.bins EXCEPT
                                ![Len(kept.bins)] = Bin_add(@, duration)]
                  /\ total' = Bin_add(kept.total, duration)
                  /\ UNCHANGED stats_pc
    /\ UNCHANGED <<window_size, bin_size, gt_query>>
    /\ UNCHANGED <<retryVars, backoffVars>>

\* MovingStats::add(duration): add_at with whatever Instant::now() reads.
Add(duration) == \E now \in 0..MaxTime : AddAt(now, duration)

StatsNext ==
    \/ \E now \in 0..MaxTime, d \in Durations : AddAt(now, d)
    \/ \E d \in Durations : Add(d)

\* A MovingStats alone: no retry is configured and no delay is drawn.
StatsSpecInit == RetryInit /\ BackoffIdle /\ StatsInit

StatsSpec == StatsSpecInit /\ [][StatsNext]_vars

(***************************************************************************)
(* Bin::average_gt on the totals a MovingStats can hold, up to the largest *)
(* count and duration (an empty total has no duration).                    *)
(***************************************************************************)
\* How far from 0 and from the maximum the sampled values reach.
MaxEdge == 2
EdgeValues(max) ==
    (0..MaxEdge) \cup ((max - MaxEdge)..max) \cup {max \div 2}

GtInit ==
    /\ stats_pc = "ready"
    /\ window_size = 0
    /\ bin_size = 0
    /\ bins = <<>>
    /\ times = <<>>
    /\ gt_query = NoQuery
    /\ \E c \in EdgeValues(U32_MAX), d \in EdgeValues(DURATION_MAX) :
         /\ c = 0 => d = 0
         /\ total = [start |-> 0, duration |-> d, count |-> c]

\* MovingStats::average_gt(duration)
AverageGt(duration) ==
    /\ stats_pc = "ready"
    /\ gt_query' = [asked |-> TRUE, threshold |-> duration,
                    answer |-> Bin_average_gt(total, duration)]
    /\ UNCHANGED <<stats_pc, window_size, bin_size, bins, total, times>>
    /\ UNCHANGED <<retryVars, backoffVars>>

GtNext == \E d \in EdgeValues(DURATION_MAX) : AverageGt(d)

GtSpecInit == RetryInit /\ BackoffIdle /\ GtInit

GtSpec == GtSpecInit /\ [][GtNext]_vars

(***************************************************************************)
(* Properties                                                              *)
(***************************************************************************)
Started == pc \in {"Running", "Sleeping", "Done"} \/ attempt_count > 0

\* Attempts remain after attempt i: no limit, or a limit above i.
AttemptsRemain(i) == limit = Clear \/ (limit.tag = "Set" /\ i < limit.v)

\* Attempt i was followed up: the next attempt was made, or the backoff delay
\* before it is running or was cut short by a timer fault.
FollowedUp(i) == attempt_count > i \/ pc = "Sleeping" \/ pc = "Panicked"

\* Attempt i ended the run with its own result and no later factory call.
EndedRun(i) ==
    /\ i = Len(hist)
    /\ attempt_count = i
    /\ pc = "Done"
    /\ result = hist[i]

AllRetryableErrors ==
    \A i \in 1..Len(hist) : hist[i].tag = "Err" /\ Predicate(predicate, hist[i])

\* C1: with limit(L), L >= 1, and every attempt failing with an error the
\* predicate marks retryable, the factory is invoked exactly L times and run
\* returns the error of the L-th attempt.
C1_LimitReached ==
    \A L \in 1..MaxLimit :
      (Started /\ limit = Set(L) /\ AllRetryableErrors) =>
        /\ attempt_count <= L
        /\ (Len(hist) = L => pc = "Done")
        /\ (pc = "Done" => attempt_count = L /\ Len(hist) = L /\ result = hist[L])

C1_Witness ==
    /\ pc = "Done"
    /\ limit = Set(3)
    /\ AllRetryableErrors
    /\ attempt_count = 3
    /\ result = hist[3]

\* C2: with when_err and no limit or a limit >= N, an operation failing on its
\* first N-1 calls and succeeding on the N-th makes run return the N-th call's
\* value after exactly N factory invocations.
C2_SucceedsOnNth ==
    \A N \in 1..Len(hist) :
      ( /\ predicate = "when_err"
        /\ limit = Clear \/ (limit.tag = "Set" /\ limit.v >= N)
        /\ hist[N].tag = "Ok"
        /\ \A i \in 1..(N - 1) : hist[i].tag = "Err" ) => EndedRun(N)

C2_Witness ==
    /\ pc = "Done"
    /\ predicate = "when_err"
    /\ limit = Clear
    /\ Len(hist) = 3
    /\ hist[1].tag = "Err" /\ hist[2].tag = "Err"
    /\ result = Ok(1, 3)
    /\ attempt_count = 3

\* C3: an attempt failing with an error on which the predicate answers "do not
\* retry" ends the run at once with that error, and the factory is not
\* invoked again, whatever the attempt's number and the limit.
C3_TerminalFailureStops ==
    \A i \in 1..Len(hist) :
      (hist[i].tag = "Err" /\ ~Predicate(predicate, hist[i])) => EndedRun(i)

C3_Witness ==
    /\ pc = "Done"
    /\ limit = Clear
    /\ Len(hist) = 1
    /\ hist[1].tag = "Err"
    /\ ~Predicate(predicate, hist[1])
    /\ result = hist[1]
    /\ attempt_count = 1

\* C4: an attempt that times out is always retryable: the predicate is never
\* applied to it, and if attempts remain it is followed up by another attempt
\* whatever the predicate.
C4_TimeoutAlwaysRetryable ==
    /\ \A j \in 1..Len(consulted) : ~is_elapsed(consulted[j])
    /\ \A i \in 1..Len(hist) :
         (is_elapsed(hist[i]) /\ AttemptsRemain(i)) =>
            FollowedUp(i) /\ ~(pc = "Done" /\ result = hist[i])

C4_Witness ==
    /\ predicate = "never"
    /\ Len(hist) >= 1
    /\ is_elapsed(hist[1])
    /\ pc = "Running"
    /\ attempt_count = 2
    /\ consulted = <<>>

\* C5 as stated: for every configurable predicate, a successful attempt ends
\* the run with its value and is never followed by another attempt.
C5_SuccessAlwaysStops ==
    \A i \in 1..Len(hist) : hist[i].tag = "Ok" => EndedRun(i)

\* C5 amended: a successful attempt on which the predicate answers "do not
\* retry" (always so for when_err) ends the run with its value and is never
\* followed by another attempt.
C5_SuccessStopsUnlessPredicate ==
    \A i \in 1..Len(hist) :
      ( /\ hist[i].tag = "Ok"
        /\ predicate = "when_err" \/ ~Predicate(predicate, hist[i]) ) => EndedRun(i)

C5_Witness ==
    /\ pc = "Done"
    /\ predicate = "val_lt_1"
    /\ Len(hist) = 2
    /\ hist[1] = Ok(0, 1)
    /\ result = Ok(1, 2)

\* C6: with a predicate set by when(predicate), run repeats the operation for
\* as long as the predicate returns true on the attempt's result, Ok or Err,
\* and returns the first result on which it returns false; the number of
\* factory invocations is the index of that result.
C6_CustomWhen ==
    predicate \in CustomPredicates =>
      \A i \in 1..Len(hist) :
        hist[i].tag \in {"Ok", "Err"} =>
          IF Predicate(predicate, hist[i])
            THEN AttemptsRemain(i) => FollowedUp(i) /\ ~(pc = "Done" /\ result = hist[i])
            ELSE /\ EndedRun(i)
                 /\ \A j \in 1..(i - 1) :
                      hist[j].tag \in {"Ok", "Err"} => Predicate(predicate, hist[j])

C6_Witness ==
    /\ pc = "Done"
    /\ predicate = "val_lt_1"
    /\ limit = Set(3)
    /\ hist = <<Ok(0, 1), Ok(0, 2), Ok(1, 3)>>
    /\ result = Ok(1, 3)
    /\ attempt_count = 3

\* C7: with limit(L), L >= 1, and a timeout, if every attempt times out run
\* makes exactly L attempts separated by L-1 backoff delays and returns the
\* elapsed error, which is not an operation error.
AllElapsed == \A i \in 1..Len(hist) : is_elapsed(hist[i])

C7_TimeoutsExhaustLimit ==
    \A L \in 1..MaxLimit :
      (Started /\ has_timeout /\ limit = Set(L) /\ AllElapsed) =>
        /\ attempt_count <= L
        /\ delays <= L - 1
        /\ (Len(hist) = L => pc = "Done")
        /\ (pc = "Done" =>
              /\ attempt_count = L
              /\ delays = L - 1
              /\ result = Elapsed(L)
              /\ result.tag /= "Err")

C7_Witness ==
    /\ pc = "Done"
    /\ has_timeout
    /\ limit = Set(3)
    /\ AllElapsed
    /\ attempt_count = 3
    /\ delays = 2
    /\ result = Elapsed(3)

\* C8: backoff delays occur strictly between attempts: none before the first
\* attempt, none after the last, k-1 of them in a run of k attempts; limit(1)
\* makes one attempt and waits no delay.
C8_DelaysBetweenAttempts ==
    /\ attempt_count = 0 => delays = 0
    /\ pc \in {"Running", "Done"} => delays = attempt_count - 1
    /\ pc = "Sleeping" => delays = attempt_count
    /\ limit = Set(1) => attempt_count <= 1 /\ delays = 0

C8_Witness ==
    /\ pc = "Done"
    /\ limit = Set(1)
    /\ attempt_count = 1
    /\ delays = 0
    /\ ForcesRetry(predicate, hist[1])

\* C9: a second call of limit(n) or no_limit() fails with a configuration
\* error, and run with neither called fails with a configuration error before
\* the factory is invoked.
ConfigurationError ==
    /\ pc = "Panicked"
    /\ panic \in {"Retry config properties must be configured only once",
                  "Retry helper must have limit parameter configured"}
    /\ attempt_count = 0

C9_LimitConfiguredOnce ==
    [][ /\ (limit /= Unknown /\ ((\E n \in 0..MaxLimit : Limit(n)) \/ NoLimit))
           => (ConfigurationError' /\ limit' = limit)
        /\ (limit = Unknown /\ \E now \in ClockSecs : Run(now)) => ConfigurationError' ]_vars

C9_Witness ==
    /\ pc = "Panicked"
    /\ panic = "Retry config properties must be configured only once"
    /\ limit = Set(2)

\* C10: once log_after(..) or no_logging() was called, a further call of
\* either fails with a configuration error instead of overwriting the value.
C10_LogAfterConfiguredOnce ==
    [][ (log_configured /\ ((\E n \in 0..MaxLogAfter : LogAfter(n)) \/ NoLogging))
          => (ConfigurationError' /\ log_after' = log_after) ]_vars

\* The last completed attempt, and whether the closure asked to retry it.
LastRetryable ==
    /\ Len(hist) >= 1
    /\ ~is_timer_err(hist[Len(hist)])
    /\ (is_elapsed(hist[Len(hist)]) \/ Predicate(predicate, hist[Len(hist)]))

\* C11: with no_limit() run never ends by exhaustion: it returns only after an
\* attempt whose result the predicate does not ask to retry, and after every
\* retryable failure or timeout another attempt eventually follows (unless
\* the delay's timer fails).
C11_UnlimitedNeverExhausts ==
    /\ [](limit = Clear /\ pc = "Done" =>
            /\ hist[Len(hist)].tag \in {"Ok", "Err"}
            /\ ~Predicate(predicate, hist[Len(hist)])
            /\ result = hist[Len(hist)])
    /\ [](limit = Clear /\ LastRetryable /\ Len(hist) = attempt_count =>
            pc \in {"Sleeping", "Panicked"})
    /\ \A k \in 1..(MaxAttempts - 1) :
         (limit = Clear /\ pc = "Sleeping" /\ attempt_count = k)
            ~> (attempt_count = k + 1 \/ pc = "Panicked")

C11_Witness ==
    /\ limit = Clear
    /\ pc = "Running"
    /\ attempt_count = 4
    /\ Len(hist) = 3
    /\ is_elapsed(hist[1])
    /\ hist[2].tag = "Err" /\ Predicate(predicate, hist[2])
    /\ hist[3].tag = "Err" /\ Predicate(predicate, hist[3])

\* C12: a timer failure is never returned to the caller of run and never
\* treated as a retryable attempt (no log event, no delay, no further
\* attempt): the run panics.
C12_TimerFaultAborts ==
    /\ result.tag /= "Timer"
    /\ (pc = "Panicked" /\ panic = "tokio timer error") => result = NoResult
    /\ \A i \in 1..Len(hist) :
         is_timer_err(hist[i]) =>
            /\ i = Len(hist)
            /\ attempt_count = i
            /\ pc = "Panicked"
            /\ panic = "tokio timer error"
            /\ result = NoResult
            /\ delays = i - 1
            /\ \A j \in 1..Len(log) : log[j].attempt /= i + 1

C12_Witness ==
    /\ pc = "Panicked"
    /\ panic = "tokio timer error"
    /\ Len(hist) = 2
    /\ is_elapsed(hist[1])
    /\ is_timer_err(hist[2])
    /\ predicate = "always"
    /\ log_after = 1

\* C20: a retry event is logged after attempt k only when that attempt was a
\* retryable failure or timeout, k >= log_after, and another attempt actually
\* follows; none is logged for the final attempt of an exhausted run, and none
\* at all with no_logging().
C20_LogOnlyWhenRetrying ==
    /\ log_after = U64_MAX => log = <<>>
    /\ \A j \in 1..Len(log) :
         LET k == log[j].attempt - 1 IN
           /\ k >= log_after
           /\ k \in 1..Len(hist)
           /\ is_elapsed(hist[k]) \/ Predicate(predicate, hist[k])
           /\ ~(pc = "Done" /\ Len(hist) = k)

(***************************************************************************)
(* Properties of MovingStats                                               *)
(***************************************************************************)
RECURSIVE SumCount(_)
SumCount(bs) == IF bs = <<>> THEN 0 ELSE Head(bs).count + SumCount(Tail(bs))
RECURSIVE SumDuration(_)
SumDuration(bs) ==
    IF bs = <<>> THEN 0 ELSE Head(bs).duration + SumDuration(Tail(bs))

\* The timestamps so far never went back; the latest of them.
Monotone == \A i, j \in 1..Len(times) : i <= j => times[i] <= times[j]
Now == times[Len(times)]
Starts(bs) == {bs[i].start : i \in 1..Len(bs)}

\* add_at was called; it returned at least once and never failed.
Called == times /= <<>>
Added == stats_pc = "ready" /\ times /= <<>>

\* C13: after any sequence of add / add_at calls the total's count and
\* duration are the sums of the counts and durations of the retained bins.
C13_TotalIsSumOfBins ==
    /\ total.count = SumCount(bins)
    /\ total.duration = SumDuration(bins)

C13_Witness ==
    /\ stats_pc = "ready"
    /\ Len(times) = 4
    /\ Len(bins) = 2
    /\ total.count = 3
    /\ total.duration = 5
    /\ bins[1].count = 2

\* C14: with non-decreasing timestamps, right after add_at(now, d) the
\* retained bins are exactly the bins whose start satisfies
\* now - start < window_size, and the total counts exactly the measurements
\* in those bins (those taken at or after the oldest retained bin's start).
C14_RetainedBinsAreThoseInWindow ==
    /\ []((Called /\ Monotone) =>
            /\ \A i \in 1..Len(bins) :
                 bins[i].start <= Now /\ Now - bins[i].start < window_size
            /\ total.count =
                 IF bins = <<>> THEN 0 ELSE
                 Cardinality({i \in 1..Len(times) : times[i] >= bins[1].start}))
    /\ [][(Called' /\ Monotone') =>
            /\ Starts(bins') \subseteq Starts(bins) \cup {Now'}
            /\ \A s \in Starts(bins) :
                 s \in Starts(bins') <=> Now' - s < window_size]_vars

C14_Witness ==
    /\ stats_pc = "ready"
    /\ window_size = 2
    /\ bin_size = 1
    /\ times = <<0, 1, 2, 3>>
    /\ Starts(bins) = {2, 3}
    /\ total.count = 2

\* C15: average() is None exactly when the total count is 0 and otherwise the
\* total duration divided by the total count; after at least one successful
\* add the count is at least 1.
C15_AverageDefinedIffCounted ==
    /\ average(total) = None <=> total.count = 0
    /\ total.count > 0 =>
         /\ average(total).some
         /\ average(total).v * total.count <= total.duration
         /\ (average(total).v + 1) * total.count > total.duration
    /\ Added => total.count >= 1

C15_Witness ==
    /\ stats_pc = "ready"
    /\ total.count = 2
    /\ total.duration = 3
    /\ average(total) = Some(1)

\* C16: average_gt(threshold) returns total.duration > threshold * total.count
\* when that product fits in a Duration (false for a count of 0) and false
\* when it overflows, up to the largest count and duration.
C16_AverageGtNeverOverflows ==
    gt_query.asked =>
      /\ IF gt_query.threshold * total.count <= DURATION_MAX
           THEN gt_query.answer =
                  (total.duration > gt_query.threshold * total.count)
           ELSE gt_query.answer = FALSE
      /\ total.count = 0 => gt_query.answer = FALSE

C16_Witness ==
    /\ gt_query.asked
    /\ gt_query.threshold = DURATION_MAX
    /\ total.count = U32_MAX
    /\ total.duration = DURATION_MAX
    /\ gt_query.answer = FALSE

\* C17: with non-decreasing timestamps, right after add_at(now, d) every
\* measurement taken at t with now - t < window_size - bin_size is counted
\* and none with now - t >= window_size + bin_size is (the measurements
\* counted are the latest total.count ones).
Counted(i) == i > Len(times) - total.count

C17_AccurateWithinOneBin ==
    (Called /\ Monotone) =>
      \A i \in 1..Len(times) :
        /\ Now - times[i] < window_size - bin_size => Counted(i)
        /\ Now - times[i] >= window_size + bin_size => ~Counted(i)

C17_Witness ==
    /\ stats_pc = "ready"
    /\ window_size = 3
    /\ bin_size = 1
    /\ times = <<0, 1, 4>>
    /\ total.count = 1

\* C18: for bin_size > 0 and timestamps in any order, the number of retained
\* bins never exceeds window_size / bin_size rounded up.
C18_BinsBounded ==
    bin_size > 0 =>
      Len(bins) <= (window_size + bin_size - 1) \div bin_size

C18_Witness ==
    /\ stats_pc = "ready"
    /\ window_size = 3
    /\ bin_size = 1
    /\ Len(bins) = 3
    /\ ~Monotone

(***************************************************************************)
(* Properties of the backoff delays                                        *)
(***************************************************************************)
Min(a, b) == IF a <= b THEN a ELSE b

\* Duration comparison.
DurationLeq(a, b) == a.secs < b.secs \/ (a.secs = b.secs /\ a.nanos <= b.nanos)

\* The delay waited before attempt k + 2, before jitter, in milliseconds.
ExpectedDelay(k) == Min(2 * 2^k, 30000)

\* C19: the delay before attempt k+2 (the strategy's item k) is, before
\* jitter, min(2 ms * 2^k, 30 s): non-negative, never above 30 s, and
\* non-decreasing in k; after jitter it lies between 0 and that value.
C19_BackoffDelays ==
    bo_index >= 1 =>
      LET k == bo_index - 1 IN
        /\ bo_raw = ExpectedDelay(k)
        /\ bo_raw >= 0 /\ bo_raw <= 30000
        /\ k >= 1 => bo_raw >= ExpectedDelay(k - 1)
        /\ DurationLeq(NoDelay, bo_delay)
        /\ bo_delay.nanos >= 0
        /\ DurationLeq(bo_delay, from_millis(bo_raw))

C19_Witness ==
    /\ bo_index = 16
    /\ bo_raw = 30000
    /\ bo_delay = [secs |-> 15, nanos |-> 0]

(***************************************************************************)
(* Properties of one add_at call                                           *)
(***************************************************************************)
\* The step is a call of add_at; the timestamp it was given.
AddAtStep == times' /= times
StepNow == times'[Len(times')]

\* The starts of the bins, front to back.
StartSeq(bs) == [i \in 1..Len(bs) |-> bs[i].start]

\* The bins held before the call that are gone after it.
Evicted(i) == \A j \in 1..Len(bins') : bins'[j].start /= bins[i].start

\* How many bins at the front are window_size old or older, counting a bin
\* that starts after the timestamp as of age 0.
ExpiredPrefix(bs, now, wsize) ==
    CHOOSE n \in 0..Len(bs) :
      /\ \A i \in 1..n : saturating_duration_since(now, bs[i].start) >= wsize
      /\ n < Len(bs) =>
           saturating_duration_since(now, bs[n + 1].start) < wsize

\* What the call added to the total: one measurement if it returned.
Recorded == IF stats_pc' = "ready" THEN 1 ELSE 0

\* C22 as stated: add_at evicts exactly the bins whose start is strictly
\* older than timestamp - window_size, so a bin that starts exactly
\* window_size before the timestamp is retained, and the total is reduced by
\* exactly what the evicted bins held.
C22_EvictsStrictlyOlder ==
    [][AddAtStep =>
         /\ \A i \in 1..Len(bins) :
              Evicted(i) <=> bins[i].start < StepNow - window_size
         /\ total'.count =
              total.count + Recorded
                - SumCount(SelectSeq(bins,
                     LAMBDA b : b.start < StepNow - window_size))]_vars

\* C22 amended: add_at evicts from the front every bin that starts at or
\* before timestamp - window_size, up to the first younger bin: a bin that
\* starts exactly window_size before the timestamp is evicted.  The bins
\* behind it stay in their order and the total loses exactly the count and
\* duration of the evicted bins.
C22_EvictsAtOrOlder ==
    [][AddAtStep =>
         LET n == ExpiredPrefix(bins, StepNow, window_size)
             gone == SubSeq(bins, 1, n)
             rest == SubSeq(bins, n + 1, Len(bins))
         IN  /\ Len(bins') \in {Len(rest), Len(rest) + 1}
             /\ SubSeq(StartSeq(bins'), 1, Len(rest)) = StartSeq(rest)
             /\ total'.count = total.count - SumCount(gone) + Recorded
             /\ IF stats_pc' = "ready"
                  THEN total'.duration - total.duration + SumDuration(gone)
                         \in Durations
                  ELSE total'.duration = total.duration - SumDuration(gone)]_vars

\* A bin that started exactly window_size before the timestamp was evicted.
C22_Witness ==
    /\ stats_pc = "ready"
    /\ window_size = 2
    /\ times = <<0, 2>>
    /\ StartSeq(bins) = <<2>>
    /\ total.count = 1

\* C23: add_at never fails, whatever window_size, bin_size and the order of
\* the timestamps: after the eviction step the deque is non-empty, and the
\* measurement just added is in the newest bin and in the total.
C23_AddAtNeverFails ==
    Called =>
      /\ stats_pc = "ready"
      /\ bins /= <<>>
      /\ bins[Len(bins)].count >= 1
      /\ total.count >= 1

\* C24: after any sequence of add_at calls, for any bin_size (zero included)
\* and any order of timestamps, the bins' starts are strictly ascending from
\* front to back and consecutive starts are at least bin_size apart.
C24_BinsStrictlyAscending ==
    \A i \in 1..(Len(bins) - 1) :
      /\ bins[i].start < bins[i + 1].start
      /\ bins[i + 1].start - bins[i].start >= bin_size

(***************************************************************************)
(* Properties of limit(0)                                                  *)
(***************************************************************************)
\* C25: for every n that limit(n) accepts, n = 0 included, run makes at most
\* max(n, 1) attempts and waits at most n - 1 (saturating at 0) delays:
\* limit - 1 neither fails nor turns into an unlimited number of retries.
C25_LimitNeverUnderflows ==
    limit.tag = "Set" =>
      /\ attempt_count <= (IF limit.v >= 1 THEN limit.v ELSE 1)
      /\ delays <= (IF limit.v >= 1 THEN limit.v - 1 ELSE 0)
      /\ panic /= "attempt to subtract with overflow"

(***************************************************************************)
(* Properties of operations that never complete                            *)
(***************************************************************************)
\* C21: with a limit L >= 1 and a timeout, run eventually returns, also
\* when operations never complete, provided the timers fire (a failing
\* timer panics instead); with no_timeout an attempt whose operation never
\* completes keeps run from ever returning.
C21_TimeoutBoundsRun ==
    /\ (Started /\ has_timeout /\ limit.tag = "Set" /\ limit.v >= 1)
         ~> (pc = "Done" \/ panic = "tokio timer error")
    /\ [][(pc = "Hanging" /\ ~has_timeout) => pc' = "Hanging"]_vars

====
